---- MODULE Spec2Model ----
(***************************************************************************)
(* A model of the mover input-automation toolkit: the motion interpolation *)
(* engine and the button sequences of mover-mouse (Mouse), the hotkey      *)
(* sequences and the key table of mover-keyboard (Keyboard, convert_key),  *)
(* the failsafe monitor, the action recorder and the utility functions of  *)
(* mover-utils, and the backend registry of mover-core.  The input backend *)
(* (enigo) is an opaque collaborator: it holds the pointer, may fail any   *)
(* call, and an external actor may move the pointer at any moment.         *)
(*                                                                         *)
(* Numbers.  Coordinates are Rust i32: subtraction and addition overflow   *)
(* panics when the build has overflow checks (debug profile) and wraps     *)
(* otherwise (release profile).  Durations are f64 seconds, modelled as an *)
(* integer count of 1/128 s, so that duration * 60 = 15u/32 is exact in    *)
(* f64.  A tween value is the exact rational <<num, den>>; the product     *)
(* (d as f64 * t) as i32 is the exact product truncated toward zero, which *)
(* is what f64 computes for the built-in tweens at the frame counts used   *)
(* here (up to 4).                                                         *)
(***************************************************************************)
EXTENDS Integers, Sequences, FiniteSets, TLC

\* ------------------------------------------------------------------ bounds
MaxDuration == 6        \* longest duration, in units of 1/128 s
MaxCoord == 3           \* largest on-screen coordinate used as an input
MaxExternal == 1        \* external pointer moves per call
MaxClock == 2           \* ticks of the monotonic clock (Instant::now)

\* --------------------------------------------------------------- constants
I32Max == 2147483647
I32Min == -2147483647 - 1
FPS == 60

\* ------------------------------------------------------- i32 arithmetic
\* a - b leaves the i32 range
SubOverflows(a, b) ==
    IF b < 0 THEN a > I32Max + b ELSE a < I32Min + b

\* a - b modulo 2^32, computed without leaving the i32 range
WrappingSub(a, b) ==
    IF ~SubOverflows(a, b) THEN a - b
    ELSE IF b < 0 THEN ((a - I32Max) - 1) + (I32Min - b)
    ELSE ((a - I32Min) + (I32Max - b)) + 1

\* a + b leaves the i32 range
AddOverflows(a, b) ==
    IF b > 0 THEN a > I32Max - b ELSE a < I32Min - b

\* a + b modulo 2^32, computed without leaving the i32 range
WrappingAdd(a, b) ==
    IF ~AddOverflows(a, b) THEN a + b
    ELSE IF b > 0 THEN ((a - I32Max) - 1) + (I32Min + b)
    ELSE ((a - I32Min) + (I32Max + b)) + 1

\* ------------------------------------------------------------------ tweens
BuiltinTweens == {"linear_tween", "ease_in_quad", "ease_out_quad", "ease_in_out_quad"}

\* caller-supplied TweenFn values: "back" is normalized and undershoots,
\* f(t) = 2t^2 - t; "half" is not normalized, f(t) = t/2
CustomTweens == {"back", "half"}

Tweens == BuiltinTweens \cup CustomTweens

linear_tween(i, n) == <<i, n>>

ease_in_quad(i, n) == <<i * i, n * n>>

ease_out_quad(i, n) == <<i * (2 * n - i), n * n>>

\* the two branches of ease_in_out_quad: 2t^2 and -1 + (4 - 2t)t
ease_in_out_quad_first(i, n) == <<2 * i * i, n * n>>

ease_in_out_quad_second(i, n) == <<(4 * n - 2 * i) * i - n * n, n * n>>

\* an ease-in-out that uses its first branch throughout
ease_in_out_quad_FirstOnly(i, n) == ease_in_out_quad_first(i, n)

ease_in_out_quad(i, n) ==
    IF 2 * i < n THEN ease_in_out_quad_first(i, n)
    ELSE ease_in_out_quad_second(i, n)

\* tween(progress) for progress = i/n, as the rational <<num, den>>
Tween(tw, i, n) ==
    CASE tw = "linear_tween" -> linear_tween(i, n)
      [] tw = "ease_in_quad" -> ease_in_quad(i, n)
      [] tw = "ease_out_quad" -> ease_out_quad(i, n)
      [] tw = "ease_in_out_quad" -> ease_in_out_quad(i, n)
      [] tw = "back" -> <<i * (2 * i - n), n * n>>
      [] tw = "half" -> <<i, 2 * n>>

\* (d as f64 * t) as i32 for t = num/den with |num| <= den: the exact product
\* truncated toward zero, split so that no intermediate leaves the i32 range
MulTrunc(d, t) ==
    LET num == t[1]
        den == t[2]
        q == d \div den
        r == d % den
        whole == q * num
        frac == r * num
        neg == (d < 0 /\ num > 0) \/ (d > 0 /\ num < 0)
    IN  IF neg THEN whole + ((frac + den - 1) \div den)
        ELSE whole + (frac \div den)

\* ------------------------------------------------------------------ inputs
Point(x, y) == <<x, y>>

\* positions the pointer starts at and the external actor moves it to
PointerPositions == {Point(0, 0), Point(MaxCoord, 1), Point(1, MaxCoord)}

\* targets handed to move_to and move_to_with_tween
Targets == {Point(0, 0), Point(MaxCoord, 1), Point(-2, MaxCoord + 4), Point(I32Min, I32Max)}

\* offsets handed to move_by_with_tween
Deltas == {Point(2, -3), Point(I32Max, 1)}

\* durations, in units of 1/128 s: negative, zero, below one frame, and
\* frame counts with a fractional part above one half
Durations == {-1, 0, 1, 4, MaxDuration}

\* ------------------------------------------------------------------- state
VARIABLES
    overflow_checks,  \* build profile: TRUE when i32 overflow panics
    pointer,          \* the backend's pointer position
    pc,               \* position of the running call
    call,             \* arguments and locals of the running call
    events,           \* backend calls, tween evaluations and sleeps of the call
    result,           \* outcome of the call: "none", "Ok", "Err", "panic"
    external,         \* external pointer moves since the call started
    host,             \* target_os the crate was built for
    config,           \* FailsafeManager.config: failsafe flag and failsafe_points
    last_check,       \* FailsafeManager.last_check
    clock,            \* the monotonic clock read by Instant::now()
    screen,           \* the live screen size
    origin,           \* how the manager's config was built: "default" or "custom"
    updated,          \* update_failsafe_points has been called
    actions           \* ActionRecorder.actions

mouseVars == <<overflow_checks, pointer, pc, call, events, result, external>>

failsafeVars == <<host, config, last_check, clock, screen, origin, updated>>

recorderVars == <<actions>>

vars == <<overflow_checks, pointer, pc, call, events, result, external,
          host, config, last_check, clock, screen, origin, updated,
          actions>>

\* ActionRecorder::new
RecorderInit ==
    actions = <<>>

NoCall ==
    [op |-> "none", x |-> 0, y |-> 0, duration |-> 0, tween |-> "linear_tween",
     base |-> Point(0, 0), start_pos |-> Point(0, 0), steps |-> 0, i |-> 0,
     dx |-> 0, dy |-> 0, size |-> Point(0, 0), button |-> "Primary"]

\* entries of the event log
PositionEv(p) == <<"position", p>>
MoveEv(p) == <<"move_mouse", p>>
TweenEv(i, n) == <<"tween", i, n>>
SleepEv(num, den) == <<"sleep", num, den>>
ExternalEv(p) == <<"external", p>>
PlatformEv(name) == <<"get_platform", name>>

\* the frame count rounded to the nearest integer instead of truncated
Steps_Rounded(u) ==
    LET frames == (2 * u * FPS + 128) \div 256
    IN  IF frames < 1 THEN 1 ELSE frames

\* steps = (duration * 60.0).max(1.0) as usize, for duration = u/128 s
Steps(u) ==
    LET frames == (u * FPS) \div 128
    IN  IF frames < 1 THEN 1 ELSE frames

\* the interpolation without the subtraction of the start: start + target * t
AxisValue_NoStart(start, target, t) ==
    WrappingAdd(start, MulTrunc(target, t))

\* one axis of a frame, start + ((target - start) as f64 * t) as i32, in
\* wrapping arithmetic
AxisValue(start, target, t) ==
    WrappingAdd(start, MulTrunc(WrappingSub(target, start), t))

\* the subtraction or the addition of that expression leaves the i32 range
AxisOverflows(start, target, t) ==
    \/ SubOverflows(target, start)
    \/ AddOverflows(start, MulTrunc(WrappingSub(target, start), t))

\* frames interpolated from the live pointer instead of the position read once
FramePoint_Resampled(start_pos, x, y, tw, i, n) ==
    Point(AxisValue(pointer[1], x, Tween(tw, i, n)),
          AxisValue(pointer[2], y, Tween(tw, i, n)))

\* the point of frame i of n: both axes interpolated from start_pos to (x, y)
FramePoint(start_pos, x, y, tw, i, n) ==
    Point(AxisValue(start_pos[1], x, Tween(tw, i, n)),
          AxisValue(start_pos[2], y, Tween(tw, i, n)))

FrameOverflows(start_pos, x, y, tw, i, n) ==
    \/ AxisOverflows(start_pos[1], x, Tween(tw, i, n))
    \/ AxisOverflows(start_pos[2], y, Tween(tw, i, n))

\* the degradation test with a strict comparison
Degrades_Strict(duration) == duration < 0

\* if duration <= 0.0 { return self.move_to(x, y); }
Degrades(duration) == duration <= 0

\* the loop bound exclusive, for i in 0..steps: the last frame is never issued
MoreFrames_Exclusive(i, steps) == i + 1 < steps

\* frame i is followed by a sleep and another frame: i < steps in 0..=steps
MoreFrames(i, steps) == i < steps

\* Vec::contains
Contains(points, p) == \E k \in DOMAIN points : points[k] = p

\* a failed move sends the loop back to the same frame
MoveFailed_Retry == "frame"

\* self.move_to(current_x, current_y)?: a failed move ends the call
MoveFailed == "done"

MouseInit ==
    /\ overflow_checks \in BOOLEAN
    /\ pointer \in PointerPositions
    /\ pc = "idle"
    /\ call = NoCall
    /\ events = <<>>
    /\ result = "none"
    /\ external = 0

\* Mouse::move_to: one absolute move through the backend, which may fail
MoveTo(x, y) ==
    /\ pc = "idle"
    /\ \E ok \in BOOLEAN :
        /\ pointer' = IF ok THEN Point(x, y) ELSE pointer
        /\ result' = IF ok THEN "Ok" ELSE "Err"
    /\ call' = [NoCall EXCEPT !.op = "move_to", !.x = x, !.y = y]
    /\ events' = <<MoveEv(Point(x, y))>>
    /\ pc' = "done"
    /\ UNCHANGED <<recorderVars, failsafeVars, overflow_checks, external>>

\* a caller invokes Mouse::move_to_with_tween
MoveToWithTween(x, y, duration, tween) ==
    /\ pc = "idle"
    /\ call' = [NoCall EXCEPT !.op = "move_to_with_tween", !.x = x, !.y = y,
                              !.duration = duration, !.tween = tween]
    /\ events' = <<>>
    /\ pc' = "move_to_with_tween"
    /\ UNCHANGED <<recorderVars, failsafeVars, overflow_checks, pointer, result, external>>

\* Mouse::move_by_with_tween: read the position, add the offset, delegate
MoveByWithTween(dx, dy, duration, tween) ==
    /\ pc = "idle"
    /\ \E ok \in BOOLEAN :
        IF ~ok
        THEN /\ call' = [NoCall EXCEPT !.op = "move_by_with_tween"]
             /\ result' = "Err"
             /\ pc' = "done"
        ELSE IF overflow_checks /\ (AddOverflows(pointer[1], dx) \/ AddOverflows(pointer[2], dy))
        THEN /\ call' = [NoCall EXCEPT !.op = "move_by_with_tween", !.base = pointer]
             /\ result' = "panic"
             /\ pc' = "panicked"
        ELSE /\ call' = [NoCall EXCEPT !.op = "move_by_with_tween",
                                       !.x = WrappingAdd(pointer[1], dx),
                                       !.y = WrappingAdd(pointer[2], dy),
                                       !.duration = duration, !.tween = tween,
                                       !.base = pointer, !.dx = dx, !.dy = dy]
             /\ result' = result
             /\ pc' = "move_to_with_tween"
    /\ events' = <<PositionEv(pointer)>>
    /\ UNCHANGED <<recorderVars, failsafeVars, overflow_checks, pointer, external>>

\* move_to_with_tween up to its loop: the duration test, then either the
\* plain move_to or the position read and the frame count
Enter ==
    /\ pc = "move_to_with_tween"
    /\ \E ok \in BOOLEAN :
        IF Degrades(call.duration)
        THEN /\ pointer' = IF ok THEN Point(call.x, call.y) ELSE pointer
             /\ events' = Append(events, MoveEv(Point(call.x, call.y)))
             /\ result' = IF ok THEN "Ok" ELSE "Err"
             /\ pc' = "done"
             /\ call' = call
        ELSE /\ pointer' = pointer
             /\ events' = Append(events, PositionEv(pointer))
             /\ result' = IF ok THEN result ELSE "Err"
             /\ pc' = IF ok THEN "frame" ELSE "done"
             /\ call' = IF ok THEN [call EXCEPT !.start_pos = pointer,
                                                !.steps = Steps(call.duration),
                                                !.i = 0]
                        ELSE call
    /\ UNCHANGED <<recorderVars, failsafeVars, overflow_checks, external>>

\* one iteration of the loop up to its sleep: evaluate the tween, interpolate
\* both axes, move; after the last frame the call returns Ok
Frame ==
    /\ pc = "frame"
    /\ LET p == FramePoint(call.start_pos, call.x, call.y, call.tween, call.i, call.steps)
           ovf == FrameOverflows(call.start_pos, call.x, call.y, call.tween, call.i, call.steps)
       IN  IF ovf /\ overflow_checks
           THEN /\ events' = Append(events, TweenEv(call.i, call.steps))
                /\ result' = "panic"
                /\ pc' = "panicked"
                /\ pointer' = pointer
           ELSE \E ok \in BOOLEAN :
                /\ events' = events \o <<TweenEv(call.i, call.steps), MoveEv(p)>>
                /\ pointer' = IF ok THEN p ELSE pointer
                /\ result' = IF ~ok THEN "Err"
                             ELSE IF MoreFrames(call.i, call.steps) THEN result ELSE "Ok"
                /\ pc' = IF ~ok THEN MoveFailed
                         ELSE IF MoreFrames(call.i, call.steps) THEN "sleep" ELSE "done"
    /\ UNCHANGED <<recorderVars, failsafeVars, overflow_checks, call, external>>

\* a sleep that polls the failsafe monitor and gives the call up on a sentinel
Sleep_Cancellable ==
    /\ pc = "sleep"
    /\ events' = Append(events, SleepEv(call.duration, call.steps))
    /\ IF config.failsafe /\ Contains(config.failsafe_points, pointer)
       THEN /\ result' = "FailsafeTriggered"
            /\ pc' = "done"
            /\ call' = call
       ELSE /\ result' = result
            /\ pc' = "frame"
            /\ call' = [call EXCEPT !.i = call.i + 1]
    /\ UNCHANGED <<recorderVars, failsafeVars, overflow_checks, pointer, external>>

\* self.sleep(duration / steps) between two frames, then the next iteration
Sleep ==
    /\ pc = "sleep"
    /\ events' = Append(events, SleepEv(call.duration, call.steps))
    /\ call' = [call EXCEPT !.i = call.i + 1]
    /\ pc' = "frame"
    /\ UNCHANGED <<recorderVars, failsafeVars, overflow_checks, pointer, result, external>>

\* the caller takes the result; the next call starts from a clean log.
\* (Mouse keeps no state between calls, so the engine is explored one call
\* per behaviour from every pointer position; the manager's config persists.)
Return ==
    /\ pc = "done"
    /\ pc' = "idle"
    /\ call' = NoCall
    /\ events' = <<>>
    /\ result' = "none"
    /\ external' = 0
    /\ UNCHANGED <<recorderVars, failsafeVars, overflow_checks, pointer>>


\* an external actor (the user, another program) moves the pointer
ExternalMove(p) ==
    /\ pc # "panicked"
    /\ external < MaxExternal
    /\ p # pointer
    /\ pointer' = p
    /\ external' = external + 1
    /\ events' = Append(events, ExternalEv(p))
    /\ UNCHANGED <<recorderVars, failsafeVars, overflow_checks, pc, call, result>>

\* enum MouseButton
MouseButtons ==
    {"Left", "Right", "Middle", "Primary", "Secondary",
     "Button4", "Button5", "Button6", "Button7"}

\* a conversion that sends the extra buttons to the middle button
convert_button_ExtrasToMiddle(button) ==
    [ok |-> TRUE,
     button |-> CASE button = "Left" -> "Left"
                  [] button = "Right" -> "Right"
                  [] button = "Middle" -> "Middle"
                  [] button = "Primary" -> "Left"
                  [] button = "Secondary" -> "Right"
                  [] OTHER -> "Middle"]

\* Mouse::convert_button: every arm is Ok(enigo::Button::_)
convert_button(button) ==
    [ok |-> TRUE,
     button |-> CASE button = "Left" -> "Left"
                  [] button = "Right" -> "Right"
                  [] button = "Middle" -> "Middle"
                  [] button = "Primary" -> "Left"
                  [] button = "Secondary" -> "Right"
                  [] button = "Button4" -> "Left"
                  [] button = "Button5" -> "Right"
                  [] button = "Button6" -> "Left"
                  [] button = "Button7" -> "Right"]

\* self.enigo.button(enigo_button, direction) and whether the backend accepted it
ButtonEv(button, direction, ok) == <<"button", button, direction, ok>>

\* Option<MouseButton>::unwrap_or_default: MouseButton::default() is Primary
unwrap_or_default(button) == IF button = "None" THEN "Primary" ELSE button

\* buttons handed to drag_to
DragButtons == {"None", "Right", "Button5"}

\* Mouse::drag_to: mouse_down, move_to, mouse_up, each followed by `?` or
\* returned; failed is the backend call that fails, 0 when none does
DragTo(x, y, button) ==
    /\ pc = "idle"
    /\ LET b == convert_button(unwrap_or_default(button)).button
           p == Point(x, y)
       IN  \E failed \in 0..3 :
            /\ events' = CASE failed = 1 -> <<ButtonEv(b, "Press", FALSE)>>
                           [] failed = 2 -> <<ButtonEv(b, "Press", TRUE), MoveEv(p)>>
                           [] failed = 3 -> <<ButtonEv(b, "Press", TRUE), MoveEv(p),
                                              ButtonEv(b, "Release", FALSE)>>
                           [] OTHER -> <<ButtonEv(b, "Press", TRUE), MoveEv(p),
                                         ButtonEv(b, "Release", TRUE)>>
            /\ pointer' = IF failed \in {0, 3} THEN p ELSE pointer
            /\ result' = IF failed = 0 THEN "Ok" ELSE "Err"
    /\ call' = [NoCall EXCEPT !.op = "drag_to", !.x = x, !.y = y,
                              !.button = unwrap_or_default(button)]
    /\ pc' = "done"
    /\ UNCHANGED <<recorderVars, failsafeVars, overflow_checks, external>>

MouseNext ==
    \/ \E t \in Targets : MoveTo(t[1], t[2])
    \/ \E t \in Targets, d \in Durations, tw \in Tweens : MoveToWithTween(t[1], t[2], d, tw)
    \/ \E dl \in Deltas, d \in Durations, tw \in Tweens : MoveByWithTween(dl[1], dl[2], d, tw)
    \/ Enter
    \/ Frame
    \/ Sleep
    \/ \E p \in PointerPositions : ExternalMove(p)
    \/ \E t \in Targets, b \in DragButtons : DragTo(t[1], t[2], b)

\* ---------------------------------------------------------- failsafe monitor
Size(width, height) == <<width, height>>

\* screen sizes, of the live screen and handed to update_failsafe_points
Sizes == {Size(MaxCoord, 2), Size(2, MaxCoord)}

\* pointer positions on and around such a screen
ScreenPositions == {Point(x, y) : x \in -1..MaxCoord, y \in -1..MaxCoord}

Hosts == {"windows", "macos", "linux", "freebsd"}

\* failsafe and failsafe_points of MoverConfig::default()
DefaultConfig ==
    [failsafe |-> TRUE, failsafe_points |-> <<Point(0, 0), Point(0, 0)>>]

\* configs a caller builds by hand (every field of MoverConfig is public)
CustomConfigs ==
    {[failsafe |-> f, failsafe_points |-> ps] :
        f \in BOOLEAN, ps \in {<<>>, <<Point(1, 1)>>, <<Point(0, 0), Point(0, 0)>>}}

\* a registry that falls back to the Linux backend on an unknown host
get_platform_Fallback(os) ==
    CASE os = "windows" -> [ok |-> TRUE, name |-> "Windows"]
      [] os = "macos" -> [ok |-> TRUE, name |-> "macOS"]
      [] OTHER -> [ok |-> TRUE, name |-> "Linux"]

\* get_platform(): the backend compiled for the host, or PlatformNotSupported
\* carrying std::env::consts::OS
get_platform(os) ==
    CASE os = "windows" -> [ok |-> TRUE, name |-> "Windows"]
      [] os = "macos" -> [ok |-> TRUE, name |-> "macOS"]
      [] os = "linux" -> [ok |-> TRUE, name |-> "Linux"]
      [] OTHER -> [ok |-> FALSE, err |-> <<"PlatformNotSupported", os>>]

\* MousePlatform::get_position of the three backends: unimplemented!()
get_position(name, p) == [kind |-> "panic"]

\* check() without its early return
FailsafeOff_Never(cfg) == FALSE

\* if !self.config.failsafe { return Ok(()); }
FailsafeOff(cfg) == ~cfg.failsafe

FailsafeInit ==
    /\ host \in Hosts
    /\ \/ config = DefaultConfig /\ origin = "default"
       \/ config \in CustomConfigs /\ origin = "custom"
    /\ last_check = 0
    /\ clock = 0
    /\ screen \in Sizes
    /\ updated = FALSE
    /\ overflow_checks \in BOOLEAN
    /\ pointer \in {Point(0, 0), Point(1, 1)}
    /\ RecorderInit
    /\ pc = "idle"
    /\ call = NoCall
    /\ events = <<>>
    /\ result = "none"
    /\ external = 0

\* a check that disarms the monitor once it has run
Check_Disarming ==
    /\ pc = "idle"
    /\ call' = [NoCall EXCEPT !.op = "check", !.base = pointer, !.size = screen]
    /\ events' = <<>>
    /\ result' = "Ok"
    /\ pc' = "done"
    /\ config' = [config EXCEPT !.failsafe = FALSE]
    /\ UNCHANGED <<recorderVars, overflow_checks, pointer, external, host, last_check, clock,
                   screen, origin, updated>>

\* FailsafeManager::check
Check ==
    /\ pc = "idle"
    /\ call' = [NoCall EXCEPT !.op = "check", !.base = pointer, !.size = screen]
    /\ IF FailsafeOff(config)
       THEN /\ events' = <<>>
            /\ result' = "Ok"
            /\ pc' = "done"
            /\ last_check' = last_check
       ELSE LET platform == get_platform(host)
            IN  IF ~platform.ok
                THEN /\ events' = <<PlatformEv(host)>>
                     /\ result' = platform.err[1]
                     /\ pc' = "done"
                     /\ last_check' = last_check
                ELSE LET current_pos == get_position(platform.name, pointer)
                     IN  /\ events' = <<PlatformEv(host), <<"get_position">> >>
                         /\ IF current_pos.kind = "panic"
                            THEN /\ result' = "panic"
                                 /\ pc' = "panicked"
                                 /\ last_check' = last_check
                            ELSE IF current_pos.kind = "Err"
                            THEN /\ result' = "Err"
                                 /\ pc' = "done"
                                 /\ last_check' = last_check
                            ELSE IF Contains(config.failsafe_points, current_pos.point)
                            THEN /\ result' = "FailsafeTriggered"
                                 /\ pc' = "done"
                                 /\ last_check' = last_check
                            ELSE /\ result' = "Ok"
                                 /\ pc' = "done"
                                 /\ last_check' = clock
    /\ UNCHANGED <<recorderVars, overflow_checks, pointer, external, host, config, clock, screen,
                   origin, updated>>

\* the corners one pixel outside the screen: width and height instead of
\* width - 1 and height - 1
Corners_Outside(size) ==
    <<Point(0, 0), Point(size[1], 0), Point(0, size[2]), Point(size[1], size[2])>>

\* the four corners of a screen of the given size
Corners(size) ==
    <<Point(0, 0),
      Point(WrappingSub(size[1], 1), 0),
      Point(0, WrappingSub(size[2], 1)),
      Point(WrappingSub(size[1], 1), WrappingSub(size[2], 1))>>

\* FailsafeManager::update_failsafe_points
UpdateFailsafePoints(screen_size) ==
    /\ pc = "idle"
    /\ call' = [NoCall EXCEPT !.op = "update_failsafe_points", !.size = screen_size]
    /\ events' = <<>>
    /\ IF overflow_checks /\ (SubOverflows(screen_size[1], 1) \/ SubOverflows(screen_size[2], 1))
       THEN /\ result' = "panic"
            /\ pc' = "panicked"
            /\ UNCHANGED <<config, updated>>
       ELSE /\ config' = [config EXCEPT !.failsafe_points = Corners(screen_size)]
            /\ updated' = TRUE
            /\ result' = "Ok"
            /\ pc' = "done"
    /\ UNCHANGED <<recorderVars, overflow_checks, pointer, external, host, last_check, clock, screen, origin>>

\* the display changes resolution; nothing tells the manager
ResolutionChange(size) ==
    /\ pc # "panicked"
    /\ size # screen
    /\ screen' = size
    /\ UNCHANGED <<recorderVars, mouseVars, host, config, last_check, clock, origin, updated>>

\* the pointer moves on the screen between automation steps
PointerMoves(p) ==
    /\ pc = "idle"
    /\ p # pointer
    /\ pointer' = p
    /\ UNCHANGED <<recorderVars, overflow_checks, pc, call, events, result, external, failsafeVars>>

\* time passes
Tick ==
    /\ clock < MaxClock
    /\ clock' = clock + 1
    /\ UNCHANGED <<recorderVars, mouseVars, host, config, last_check, screen, origin, updated>>

FailsafeNext ==
    \/ Check
    \/ \E size \in Sizes : UpdateFailsafePoints(size)
    \/ \E size \in Sizes : ResolutionChange(size)
    \/ \E p \in ScreenPositions : PointerMoves(p)
    \/ Tick
    \/ Return

\* ------------------------------------------------------- backend registry
\* the operations of MousePlatform, ScreenPlatform and KeyboardPlatform
PlatformOperations ==
    {"get_position", "move_to", "move_by", "move_to_with_tween", "click", "click_at",
     "double_click", "triple_click", "press_button", "release_button", "drag_to",
     "drag_by", "scroll_vertical", "scroll_horizontal",
     "get_size", "is_on_screen", "capture_screen", "capture_region", "get_pixel_color",
     "type_string", "press_key", "release_key", "hold_key", "press_keys", "press_hotkey"}

\* every such operation of WindowsPlatform, MacOSPlatform and LinuxPlatform
\* is unimplemented!(): it panics
platform_operation(name, op) == [kind |-> "panic"]

\* a caller asks the registry for the backend
GetPlatform ==
    /\ pc = "idle"
    /\ call' = [op |-> "get_platform"]
    /\ events' = <<>>
    /\ result' = get_platform(host)
    /\ pc' = "done"
    /\ UNCHANGED <<recorderVars, failsafeVars, overflow_checks, pointer, external>>

\* a caller invokes one operation of the backend the registry returned
PlatformCall(op) ==
    /\ pc = "idle"
    /\ get_platform(host).ok
    /\ call' = [op |-> "platform_call", fn |-> op]
    /\ events' = <<PlatformEv(host)>>
    /\ LET r == platform_operation(get_platform(host).name, op)
       IN  /\ result' = r.kind
           /\ pc' = IF r.kind = "panic" THEN "panicked" ELSE "done"
    /\ UNCHANGED <<recorderVars, failsafeVars, overflow_checks, pointer, external>>

\* ---------------------------------------------------- key canonicalization
\* A key name is a sequence of one-character strings; the grave accent
\* (U+0060) is written "grave".
UpperLetters == <<"A", "B", "C", "D", "E", "F", "G", "H", "I", "J", "K", "L", "M", "N", "O", "P", "Q", "R", "S", "T", "U", "V", "W", "X", "Y", "Z">>
LowerLetters == <<"a", "b", "c", "d", "e", "f", "g", "h", "i", "j", "k", "l", "m", "n", "o", "p", "q", "r", "s", "t", "u", "v", "w", "x", "y", "z">>

\* char::to_lowercase on the ASCII range
ToLowerChar(c) ==
    IF \E k \in 1..26 : UpperLetters[k] = c
    THEN LowerLetters[CHOOSE k \in 1..26 : UpperLetters[k] = c]
    ELSE c

\* a lowering that leaves every character as it is
to_lowercase_Identity(key) == key

\* str::to_lowercase
to_lowercase(key) == [k \in DOMAIN key |-> ToLowerChar(key[k])]

\* an error that carries the lowered name instead of the name as given
UnsupportedKey_Lowered(key, key_lower) ==
    [ok |-> FALSE, err |-> <<"UnsupportedOperation", <<"Unsupported key: ", key_lower>>>>]

\* Err(PlatformError::UnsupportedOperation(format!("Unsupported key: {}", key)))
UnsupportedKey(key, key_lower) ==
    [ok |-> FALSE, err |-> <<"UnsupportedOperation", <<"Unsupported key: ", key>>>>]

\* Ok(enigo::Key::Unicode(key_lower.chars().next().unwrap()))
UnicodeKey(key_lower) == [ok |-> TRUE, key |-> <<"Unicode", key_lower[1]>>]

\* Ok(enigo::Key::<named>)
NamedKey(k) == [ok |-> TRUE, key |-> <<k>>]

\* the one-character arms of the match: letters, digits, punctuation
LetterNames == {<<LowerLetters[k]>> : k \in 1..26}
DigitNames == {<<"0">>, <<"1">>, <<"2">>, <<"3">>, <<"4">>, <<"5">>, <<"6">>, <<"7">>, <<"8">>, <<"9">>}
PunctuationNames ==
    {<<"!">>, <<"@">>, <<"#">>, <<"$">>, <<"%">>, <<"^">>, <<"&">>, <<"*">>,
     <<"(">>, <<")">>, <<"-">>, <<"_">>, <<"=">>, <<"+">>, <<"[">>, <<"]">>,
     <<"{">>, <<"}">>, <<"\\">>, <<"|">>, <<";">>, <<":">>, <<"'">>, <<"\"">>,
     <<",">>, <<".">>, <<"/">>, <<"?">>, <<"grave">>, <<"~">>}


\* convert_key: lower the name, then match it against the table
convert_key(key) ==
    LET key_lower == to_lowercase(key)
    IN  CASE key_lower \in LetterNames -> UnicodeKey(key_lower)
          [] key_lower \in DigitNames -> UnicodeKey(key_lower)
          [] key_lower \in {<<"e", "n", "t", "e", "r">>, <<"r", "e", "t", "u", "r", "n">>} -> NamedKey("Return")
          [] key_lower \in {<<"s", "p", "a", "c", "e">>} -> NamedKey("Space")
          [] key_lower \in {<<"t", "a", "b">>} -> NamedKey("Tab")
          [] key_lower \in {<<"e", "s", "c", "a", "p", "e">>, <<"e", "s", "c">>} -> NamedKey("Escape")
          [] key_lower \in {<<"b", "a", "c", "k", "s", "p", "a", "c", "e">>} -> NamedKey("Backspace")
          [] key_lower \in {<<"d", "e", "l", "e", "t", "e">>, <<"d", "e", "l">>} -> NamedKey("Delete")
          [] key_lower \in {<<"h", "o", "m", "e">>} -> NamedKey("Home")
          [] key_lower \in {<<"e", "n", "d">>} -> NamedKey("End")
          [] key_lower \in {<<"p", "a", "g", "e", "u", "p">>, <<"p", "g", "u", "p">>} -> NamedKey("PageUp")
          [] key_lower \in {<<"p", "a", "g", "e", "d", "o", "w", "n">>, <<"p", "g", "d", "n">>} -> NamedKey("PageDown")
          [] key_lower \in {<<"u", "p">>} -> NamedKey("UpArrow")
          [] key_lower \in {<<"d", "o", "w", "n">>} -> NamedKey("DownArrow")
          [] key_lower \in {<<"l", "e", "f", "t">>} -> NamedKey("LeftArrow")
          [] key_lower \in {<<"r", "i", "g", "h", "t">>} -> NamedKey("RightArrow")
          [] key_lower \in {<<"f", "1">>} -> NamedKey("F1")
          [] key_lower \in {<<"f", "2">>} -> NamedKey("F2")
          [] key_lower \in {<<"f", "3">>} -> NamedKey("F3")
          [] key_lower \in {<<"f", "4">>} -> NamedKey("F4")
          [] key_lower \in {<<"f", "5">>} -> NamedKey("F5")
          [] key_lower \in {<<"f", "6">>} -> NamedKey("F6")
          [] key_lower \in {<<"f", "7">>} -> NamedKey("F7")
          [] key_lower \in {<<"f", "8">>} -> NamedKey("F8")
          [] key_lower \in {<<"f", "9">>} -> NamedKey("F9")
          [] key_lower \in {<<"f", "1", "0">>} -> NamedKey("F10")
          [] key_lower \in {<<"f", "1", "1">>} -> NamedKey("F11")
          [] key_lower \in {<<"f", "1", "2">>} -> NamedKey("F12")
          [] key_lower \in {<<"c", "t", "r", "l">>, <<"c", "o", "n", "t", "r", "o", "l">>} -> NamedKey("Control")
          [] key_lower \in {<<"a", "l", "t">>} -> NamedKey("Alt")
          [] key_lower \in {<<"s", "h", "i", "f", "t">>} -> NamedKey("Shift")
          [] key_lower \in {<<"m", "e", "t", "a">>, <<"w", "i", "n">>, <<"c", "o", "m", "m", "a", "n", "d">>} -> NamedKey("Meta")
          [] key_lower \in PunctuationNames -> UnicodeKey(key_lower)
          [] OTHER -> UnsupportedKey(key, key_lower)

\* the names of the documented table: letters, digits, named, arrow, function
\* and modifier keys with their aliases, and the 32 ASCII punctuation
\* characters: the 30 of the match and the two it leaves out, < and >
DocumentedNames ==
    LetterNames \cup DigitNames \cup
    {<<"e", "n", "t", "e", "r">>, <<"r", "e", "t", "u", "r", "n">>,
     <<"s", "p", "a", "c", "e">>, <<"t", "a", "b">>,
     <<"e", "s", "c", "a", "p", "e">>, <<"e", "s", "c">>,
     <<"b", "a", "c", "k", "s", "p", "a", "c", "e">>,
     <<"d", "e", "l", "e", "t", "e">>, <<"d", "e", "l">>,
     <<"h", "o", "m", "e">>, <<"e", "n", "d">>,
     <<"p", "a", "g", "e", "u", "p">>, <<"p", "g", "u", "p">>,
     <<"p", "a", "g", "e", "d", "o", "w", "n">>, <<"p", "g", "d", "n">>,
     <<"u", "p">>, <<"d", "o", "w", "n">>, <<"l", "e", "f", "t">>,
     <<"r", "i", "g", "h", "t">>, <<"f", "1">>, <<"f", "2">>, <<"f", "3">>,
     <<"f", "4">>, <<"f", "5">>, <<"f", "6">>, <<"f", "7">>, <<"f", "8">>,
     <<"f", "9">>, <<"f", "1", "0">>, <<"f", "1", "1">>, <<"f", "1", "2">>,
     <<"c", "t", "r", "l">>, <<"c", "o", "n", "t", "r", "o", "l">>,
     <<"a", "l", "t">>, <<"s", "h", "i", "f", "t">>, <<"m", "e", "t", "a">>,
     <<"w", "i", "n">>, <<"c", "o", "m", "m", "a", "n", "d">>} \cup
    PunctuationNames \cup {<<"<">>, <<">">>}

ToUpperChar(c) ==
    IF \E k \in 1..26 : LowerLetters[k] = c
    THEN UpperLetters[CHOOSE k \in 1..26 : LowerLetters[k] = c]
    ELSE c

\* every spelling of a name in upper and lower case
RECURSIVE CaseVariants(_)
CaseVariants(name) ==
    IF name = <<>> THEN {<<>>}
    ELSE {<<c>> \o rest : c \in {Head(name), ToUpperChar(Head(name))},
                          rest \in CaseVariants(Tail(name))}

\* names outside the table, the empty name among them
UndocumentedNames ==
    {<<>>, <<"f", "o", "o", "b", "a", "r">>,
     <<"F", "o", "o", "B", "a", "r">>,
     <<"u", "n", "s", "u", "p", "p", "o", "r", "t", "e", "d", "_", "k", "e", "y">>,
     <<"f", "1", "3">>, <<"a", "a">>}

KeyInputs ==
    UNION {CaseVariants(name) : name \in DocumentedNames} \cup UndocumentedNames

\* a caller resolves a key name
ConvertKey(key) ==
    /\ pc = "idle"
    /\ call' = [op |-> "convert_key", key |-> key]
    /\ events' = <<>>
    /\ result' = convert_key(key)
    /\ pc' = "done"
    /\ UNCHANGED <<recorderVars, failsafeVars, overflow_checks, pointer, external>>

\* ------------------------------------------------------------ mouse buttons
\* a caller converts a button
ConvertButton(button) ==
    /\ pc = "idle"
    /\ call' = [op |-> "convert_button", button |-> button]
    /\ events' = <<>>
    /\ result' = convert_button(button)
    /\ pc' = "done"
    /\ UNCHANGED <<recorderVars, failsafeVars, overflow_checks, pointer, external>>

\* ---------------------------------------------------------- action recorder
MaxActions == 3

\* f64 values: finite ones by their value, and the non-finite ones
F64(v) == <<"finite", v>>
NaN == <<"nan">>
Infinity == <<"inf">>
Floats == {F64(0), F64(2), NaN, Infinity}

ButtonInputs == {"Left", "Button4"}
StringInputs == {"enter"}

\* the variants of enum RecordedAction
MouseMove(x, y, duration) == [tag |-> "MouseMove", x |-> x, y |-> y, duration |-> duration]
MouseClick(x, y, button) == [tag |-> "MouseClick", x |-> x, y |-> y, button |-> button]
MouseDrag(from, to, button) == [tag |-> "MouseDrag", from |-> from, to |-> to, button |-> button]
KeyPress(key) == [tag |-> "KeyPress", key |-> key]
KeyType(text) == [tag |-> "KeyType", text |-> text]
Screenshot(path) == [tag |-> "Screenshot", path |-> path]
Wait(duration) == [tag |-> "Wait", duration |-> duration]

\* a push that puts the entry in front of the earlier ones
push_Front(vec, entry) == <<entry>> \o vec

\* Vec::push
push(vec, entry) == Append(vec, entry)

\* a record_* call: one push, no return value, no failure path
Record(op, args, entry) ==
    /\ pc = "idle"
    /\ Len(actions) < MaxActions
    /\ actions' = push(actions, entry)
    /\ call' = [op |-> op, args |-> args]
    /\ events' = <<>>
    /\ result' = "Ok"
    /\ UNCHANGED <<failsafeVars, overflow_checks, pointer, pc, external>>

record_mouse_move(x, y, duration) ==
    Record("record_mouse_move", <<x, y, duration>>, MouseMove(x, y, duration))

record_mouse_click(x, y, button) ==
    Record("record_mouse_click", <<x, y, button>>, MouseClick(x, y, button))

record_mouse_drag(from, to, button) ==
    Record("record_mouse_drag", <<from, to, button>>, MouseDrag(from, to, button))

record_key_press(key) ==
    Record("record_key_press", <<key>>, KeyPress(key))

record_key_type(text) ==
    Record("record_key_type", <<text>>, KeyType(text))

record_screenshot(path) ==
    Record("record_screenshot", <<path>>, Screenshot(path))

record_wait(duration) ==
    Record("record_wait", <<duration>>, Wait(duration))

\* get_actions: a view of the log
get_actions ==
    /\ pc = "idle"
    /\ call' = [op |-> "get_actions"]
    /\ events' = <<>>
    /\ result' = actions
    /\ UNCHANGED <<recorderVars, failsafeVars, overflow_checks, pointer, pc, external>>

\* JSON values as serde_json writes them
JsonNumber(n) == <<"number", n>>
JsonString(str) == <<"string", str>>
JsonNull == <<"null">>

\* i32 and String fields, unit variants of MouseButton, Point as an object
SerializeI32(n) == JsonNumber(n)
SerializeString(str) == JsonString(str)
SerializeButton(button) == JsonString(button)
SerializePoint(p) == [x |-> SerializeI32(p[1]), y |-> SerializeI32(p[2])]

\* serde_json writes a finite f64 as a number and NaN or an infinity as null
SerializeF64(f) == IF f[1] = "finite" THEN JsonNumber(f[2]) ELSE JsonNull

\* derive(Serialize) on RecordedAction: an object keyed by the variant name
Serialize(a) ==
    CASE a.tag = "MouseMove" ->
            [variant |-> "MouseMove",
             fields |-> [x |-> SerializeI32(a.x), y |-> SerializeI32(a.y),
                         duration |-> SerializeF64(a.duration)]]
      [] a.tag = "MouseClick" ->
            [variant |-> "MouseClick",
             fields |-> [x |-> SerializeI32(a.x), y |-> SerializeI32(a.y),
                         button |-> SerializeButton(a.button)]]
      [] a.tag = "MouseDrag" ->
            [variant |-> "MouseDrag",
             fields |-> [from |-> SerializePoint(a.from), to |-> SerializePoint(a.to),
                         button |-> SerializeButton(a.button)]]
      [] a.tag = "KeyPress" ->
            [variant |-> "KeyPress", fields |-> [key |-> SerializeString(a.key)]]
      [] a.tag = "KeyType" ->
            [variant |-> "KeyType", fields |-> [text |-> SerializeString(a.text)]]
      [] a.tag = "Screenshot" ->
            [variant |-> "Screenshot", fields |-> [path |-> SerializeString(a.path)]]
      [] a.tag = "Wait" ->
            [variant |-> "Wait", fields |-> [duration |-> SerializeF64(a.duration)]]

\* serde_json::to_string_pretty(&self.actions)
to_string_pretty(vec) == [ok |-> TRUE, text |-> [k \in DOMAIN vec |-> Serialize(vec[k])]]

\* export_json
export_json ==
    /\ pc = "idle"
    /\ call' = [op |-> "export_json"]
    /\ events' = <<>>
    /\ result' = to_string_pretty(actions)
    /\ UNCHANGED <<recorderVars, failsafeVars, overflow_checks, pointer, pc, external>>

\* an f64 field accepts a number and rejects null
F64Accepts(j) == j[1] = "number"
DeserializeF64(j) == F64(j[2])
DeserializePoint(j) == Point(j.x[2], j.y[2])

\* derive(Deserialize) on RecordedAction: the fields the variant cannot read
Rejects(j) ==
    /\ j.variant \in {"MouseMove", "Wait"}
    /\ ~F64Accepts(j.fields.duration)

Deserialize(j) ==
    CASE j.variant = "MouseMove" ->
            MouseMove(j.fields.x[2], j.fields.y[2], DeserializeF64(j.fields.duration))
      [] j.variant = "MouseClick" ->
            MouseClick(j.fields.x[2], j.fields.y[2], j.fields.button[2])
      [] j.variant = "MouseDrag" ->
            MouseDrag(DeserializePoint(j.fields.from), DeserializePoint(j.fields.to),
                      j.fields.button[2])
      [] j.variant = "KeyPress" -> KeyPress(j.fields.key[2])
      [] j.variant = "KeyType" -> KeyType(j.fields.text[2])
      [] j.variant = "Screenshot" -> Screenshot(j.fields.path[2])
      [] j.variant = "Wait" -> Wait(DeserializeF64(j.fields.duration))

\* serde_json::from_str::<Vec<RecordedAction>>(text)
from_str(text) ==
    IF \E k \in DOMAIN text : Rejects(text[k])
    THEN [ok |-> FALSE, err |-> "invalid type: null, expected f64"]
    ELSE [ok |-> TRUE, value |-> [k \in DOMAIN text |-> Deserialize(text[k])]]

\* the exported text is read back
Import ==
    /\ pc = "idle"
    /\ call.op = "export_json"
    /\ result.ok
    /\ call' = [op |-> "import"]
    /\ events' = <<>>
    /\ result' = from_str(result.text)
    /\ UNCHANGED <<recorderVars, failsafeVars, overflow_checks, pointer, pc, external>>

RecorderNext ==
    \/ \E d \in Floats : record_mouse_move(1, 2, d)
    \/ \E b \in ButtonInputs : record_mouse_click(1, 2, b)
    \/ \E b \in ButtonInputs : record_mouse_drag(Point(0, 0), Point(1, 2), b)
    \/ \E k \in StringInputs : record_key_press(k)
    \/ \E t \in StringInputs : record_key_type(t)
    \/ \E path \in StringInputs : record_screenshot(path)
    \/ \E d \in Floats : record_wait(d)
    \/ get_actions
    \/ export_json
    \/ Import

\* ------------------------------------------------- utility get_point_on_line
\* proportions n as fractions <<numerator, denominator>>
Proportions == {<<0, 1>>, <<1, 4>>, <<1, 2>>, <<1, 1>>}

\* endpoint coordinates, the ends of the i32 range among them
LineCoords == {I32Min, -1, 0, 100, I32Max}

\* x2 - x1 in i32: panics under overflow checks, wraps without them
LineDiffPanics(a, b) == overflow_checks /\ SubOverflows(b, a)

\* ((b - a) as f64 * n + a as f64) as i32: the product and the sum are exact
\* in f64; the cast drops the fraction toward zero and saturates
LineAxis(a, b, n) ==
    LET d == IF SubOverflows(b, a) THEN WrappingSub(b, a) ELSE b - a
        p == d * n[1]
        q == p \div n[2]
        r == p % n[2]
    IN  IF AddOverflows(a, q)
        THEN IF q > 0 THEN I32Max ELSE I32Min
        ELSE IF a + q < 0 /\ r > 0 THEN a + q + 1 ELSE a + q

\* functions::get_point_on_line
GetPointOnLine(x1, y1, x2, y2, n) ==
    /\ pc = "idle"
    /\ call' = [op |-> "get_point_on_line", x1 |-> x1, y1 |-> y1,
                x2 |-> x2, y2 |-> y2, n |-> n]
    /\ events' = <<>>
    /\ IF LineDiffPanics(x1, x2) \/ LineDiffPanics(y1, y2)
       THEN /\ result' = "panic"
            /\ pc' = "panicked"
       ELSE /\ result' = Point(LineAxis(x1, x2, n), LineAxis(y1, y2, n))
            /\ pc' = "done"
    /\ UNCHANGED <<recorderVars, failsafeVars, overflow_checks, pointer, external>>

\* ------------------------------------------------------- tween evaluation
MaxGrid == 4

\* a built-in tween is evaluated at t = i/n
TweenEval(tw, i, n) ==
    /\ pc = "idle"
    /\ call' = [op |-> "tween", tween |-> tw, i |-> i, n |-> n]
    /\ events' = <<>>
    /\ result' = Tween(tw, i, n)
    /\ pc' = "done"
    /\ UNCHANGED <<recorderVars, failsafeVars, overflow_checks, pointer, external>>

\* ------------------------------------------------------------------ hotkeys
MaxKeys == 3

\* key names handed to press_hotkey: a modifier, its alias, a letter in upper
\* case, and a name outside the table
HotkeyNames ==
    {<<"c", "t", "r", "l">>, <<"c", "o", "n", "t", "r", "o", "l">>, <<"C">>,
     <<"f", "o", "o">>}

\* the lists of at most MaxKeys such names
HotkeyLists == UNION {[1..n -> HotkeyNames] : n \in 0..MaxKeys}

\* self.enigo.key(key_code, direction) and whether the backend accepted it
KeyEv(key, direction, ok) == <<"key", key, direction, ok>>

\* the release loop in the order of the press loop
ReleaseOrder_Forward(keys) == keys

\* keys.iter().rev()
ReleaseOrder(keys) == [k \in DOMAIN keys |-> keys[Len(keys) + 1 - k]]

\* a caller invokes Keyboard::press_hotkey
PressHotkey(keys) ==
    /\ pc = "idle"
    /\ call' = [op |-> "press_hotkey", keys |-> keys, i |-> 1]
    /\ events' = <<>>
    /\ pc' = "press"
    /\ UNCHANGED <<recorderVars, failsafeVars, overflow_checks, pointer, result, external>>

\* one iteration of a loop of press_hotkey: convert the name, send the key to
\* the backend, and leave the call with the error if either fails
HotkeyStep(at, direction, names, next) ==
    /\ pc = at
    /\ IF call.i > Len(names)
       THEN /\ pc' = next
            /\ call' = [call EXCEPT !.i = 1]
            /\ UNCHANGED <<events, result>>
       ELSE LET key_code == convert_key(names[call.i])
            IN  IF ~key_code.ok
                THEN /\ result' = "Err"
                     /\ pc' = "done"
                     /\ UNCHANGED <<events, call>>
                ELSE \E ok \in BOOLEAN :
                     /\ events' = Append(events, KeyEv(key_code.key, direction, ok))
                     /\ result' = IF ok THEN result ELSE "Err"
                     /\ pc' = IF ok THEN at ELSE "done"
                     /\ call' = IF ok THEN [call EXCEPT !.i = call.i + 1] ELSE call
    /\ UNCHANGED <<recorderVars, failsafeVars, overflow_checks, pointer, external>>

\* for key in keys: press
PressLoop == HotkeyStep("press", "Press", call.keys, "hotkey_sleep")

\* thread::sleep(Duration::from_millis(50))
HotkeySleep ==
    /\ pc = "hotkey_sleep"
    /\ events' = Append(events, SleepEv(50, 1000))
    /\ pc' = "release"
    /\ UNCHANGED <<recorderVars, failsafeVars, overflow_checks, pointer, call, result, external>>

\* for key in keys.iter().rev(): release
ReleaseLoop == HotkeyStep("release", "Release", ReleaseOrder(call.keys), "hotkey_return")

\* Ok(())
HotkeyReturn ==
    /\ pc = "hotkey_return"
    /\ result' = "Ok"
    /\ pc' = "done"
    /\ UNCHANGED <<recorderVars, failsafeVars, overflow_checks, pointer, call, events, external>>

KeyboardNext ==
    \/ \E keys \in HotkeyLists : PressHotkey(keys)
    \/ PressLoop
    \/ HotkeySleep
    \/ ReleaseLoop
    \/ HotkeyReturn

\* ------------------------------------------------------- concurrent callers
\* Two threads, each with a Mouse of its own, drive the one pointer of the
\* host.  Here pc, call and result hold one entry per caller, and the log
\* keeps the absolute moves with the caller that issued them.
Callers == {"A", "B"}

ConcurrentTargets == {Point(MaxCoord, 1), Point(-2, MaxCoord + 4)}
ConcurrentDurations == {0, 4, MaxDuration}
ConcurrentTweens == {"linear_tween", "back"}

CallerMoveEv(c, p) == <<"move_mouse", p, c>>

\* a backend that takes the coordinates as an offset (Coordinate::Rel)
move_mouse_Rel(current, p) == Point(current[1] + p[1], current[2] + p[2])

\* self.enigo.move_mouse(x, y, Coordinate::Abs): the pointer is where the
\* last accepted move put it, whoever issued it
move_mouse(current, p) == p

ConcurrentInit ==
    /\ overflow_checks \in BOOLEAN
    /\ pointer \in PointerPositions
    /\ pc = [c \in Callers |-> "idle"]
    /\ call = [c \in Callers |-> NoCall]
    /\ result = [c \in Callers |-> "none"]
    /\ events = <<>>
    /\ external = 0
    /\ host = "linux"
    /\ config = DefaultConfig
    /\ origin = "default"
    /\ last_check = 0
    /\ clock = 0
    /\ screen = Size(MaxCoord, 2)
    /\ updated = FALSE
    /\ RecorderInit

\* caller c invokes move_to_with_tween
CallerStarts(c, x, y, duration, tween) ==
    /\ pc[c] = "idle"
    /\ call' = [call EXCEPT ![c] = [NoCall EXCEPT !.op = "move_to_with_tween",
                                                  !.x = x, !.y = y,
                                                  !.duration = duration,
                                                  !.tween = tween]]
    /\ pc' = [pc EXCEPT ![c] = "move_to_with_tween"]
    /\ UNCHANGED <<recorderVars, failsafeVars, overflow_checks, pointer, events, result, external>>

\* caller c runs move_to_with_tween up to its loop
CallerEnters(c) ==
    /\ pc[c] = "move_to_with_tween"
    /\ \E ok \in BOOLEAN :
        IF Degrades(call[c].duration)
        THEN /\ pointer' = IF ok THEN move_mouse(pointer, Point(call[c].x, call[c].y))
                           ELSE pointer
             /\ events' = Append(events, CallerMoveEv(c, Point(call[c].x, call[c].y)))
             /\ result' = [result EXCEPT ![c] = IF ok THEN "Ok" ELSE "Err"]
             /\ pc' = [pc EXCEPT ![c] = "done"]
             /\ call' = call
        ELSE /\ pointer' = pointer
             /\ events' = events
             /\ result' = IF ok THEN result ELSE [result EXCEPT ![c] = "Err"]
             /\ pc' = [pc EXCEPT ![c] = IF ok THEN "frame" ELSE "done"]
             /\ call' = IF ok THEN [call EXCEPT ![c].start_pos = pointer,
                                                ![c].steps = Steps(call[c].duration),
                                                ![c].i = 0]
                        ELSE call
    /\ UNCHANGED <<recorderVars, failsafeVars, overflow_checks, external>>

\* caller c runs one iteration of its loop up to the sleep
CallerFrame(c) ==
    /\ pc[c] = "frame"
    /\ LET k == call[c]
           p == FramePoint(k.start_pos, k.x, k.y, k.tween, k.i, k.steps)
           ovf == FrameOverflows(k.start_pos, k.x, k.y, k.tween, k.i, k.steps)
       IN  IF ovf /\ overflow_checks
           THEN /\ result' = [result EXCEPT ![c] = "panic"]
                /\ pc' = [pc EXCEPT ![c] = "panicked"]
                /\ UNCHANGED <<pointer, events>>
           ELSE \E ok \in BOOLEAN :
                /\ events' = Append(events, CallerMoveEv(c, p))
                /\ pointer' = IF ok THEN move_mouse(pointer, p) ELSE pointer
                /\ result' = IF ~ok THEN [result EXCEPT ![c] = "Err"]
                             ELSE IF MoreFrames(k.i, k.steps) THEN result
                             ELSE [result EXCEPT ![c] = "Ok"]
                /\ pc' = [pc EXCEPT ![c] = IF ~ok THEN MoveFailed
                                           ELSE IF MoreFrames(k.i, k.steps) THEN "sleep"
                                           ELSE "done"]
    /\ UNCHANGED <<recorderVars, failsafeVars, overflow_checks, call, external>>

\* caller c sleeps between two frames
CallerSleeps(c) ==
    /\ pc[c] = "sleep"
    /\ call' = [call EXCEPT ![c].i = call[c].i + 1]
    /\ pc' = [pc EXCEPT ![c] = "frame"]
    /\ UNCHANGED <<recorderVars, failsafeVars, overflow_checks, pointer, events, result, external>>

ConcurrentNext ==
    \E c \in Callers :
        \/ \E t \in ConcurrentTargets, d \in ConcurrentDurations, tw \in ConcurrentTweens :
              CallerStarts(c, t[1], t[2], d, tw)
        \/ CallerEnters(c)
        \/ CallerFrame(c)
        \/ CallerSleeps(c)

\* ------------------------------------------------ Mouse::get_point_on_line
\* start + ((end - start) as f64 * ratio) as i32: the product is cut toward
\* zero before the start is added in i32
MouseLinePanics(a, b, ratio) ==
    overflow_checks /\ AxisOverflows(a, b, ratio)

\* Mouse::get_point_on_line
MouseGetPointOnLine(start, end, ratio) ==
    /\ pc = "idle"
    /\ call' = [op |-> "Mouse::get_point_on_line", x1 |-> start[1], y1 |-> start[2],
                x2 |-> end[1], y2 |-> end[2], n |-> ratio]
    /\ events' = <<>>
    /\ IF MouseLinePanics(start[1], end[1], ratio) \/ MouseLinePanics(start[2], end[2], ratio)
       THEN /\ result' = "panic"
            /\ pc' = "panicked"
       ELSE /\ result' = Point(AxisValue(start[1], end[1], ratio),
                               AxisValue(start[2], end[2], ratio))
            /\ pc' = "done"
    /\ UNCHANGED <<recorderVars, failsafeVars, overflow_checks, pointer, external>>

\* ------------------------------------------------------------ specifications
Init ==
    /\ MouseInit
    /\ host = "linux"
    /\ config = DefaultConfig
    /\ origin = "default"
    /\ last_check = 0
    /\ clock = 0
    /\ screen = Size(MaxCoord, 2)
    /\ updated = FALSE
    /\ RecorderInit

Next == MouseNext

\* the motion interpolation engine
Spec == Init /\ [][Next]_vars

\* the engine with a running call that keeps running: the thread is
\* scheduled and every sleep is finite
LiveSpec == Spec /\ WF_vars(Enter) /\ WF_vars(Frame) /\ WF_vars(Sleep)

\* two callers on one pointer
ConcurrentSpec == ConcurrentInit /\ [][ConcurrentNext]_vars

\* the failsafe monitor
FailsafeSpec == FailsafeInit /\ [][FailsafeNext]_vars

\* the pure functions, the registry and the backend operations, each applied
\* to inputs drawn from bounded sets
FunctionsInit ==
    /\ host \in Hosts
    /\ overflow_checks \in BOOLEAN
    /\ config = DefaultConfig
    /\ origin = "default"
    /\ last_check = 0
    /\ clock = 0
    /\ screen = Size(MaxCoord, 2)
    /\ updated = FALSE
    /\ pointer = Point(0, 0)
    /\ RecorderInit
    /\ pc = "idle"
    /\ call = NoCall
    /\ events = <<>>
    /\ result = "none"
    /\ external = 0

FunctionsNext ==
    \/ GetPlatform
    \/ \E op \in PlatformOperations : PlatformCall(op)
    \/ Check
    \/ \E key \in KeyInputs : ConvertKey(key)
    \/ \E button \in MouseButtons : ConvertButton(button)
    \/ \E x1, y1, x2, y2 \in LineCoords, n \in Proportions :
          GetPointOnLine(x1, y1, x2, y2, n)
    \/ \E x1, y1, x2, y2 \in LineCoords, n \in Proportions :
          MouseGetPointOnLine(Point(x1, y1), Point(x2, y2), n)
    \/ \E tw \in BuiltinTweens, n \in 1..MaxGrid : \E i \in 0..n : TweenEval(tw, i, n)
    \/ Return

FunctionsSpec == FunctionsInit /\ [][FunctionsNext]_vars

\* the recorder on its own; the host and the build profile play no part in it
RecorderSpecInit ==
    /\ FunctionsInit
    /\ host = "linux"
    /\ overflow_checks

RecorderSpec == RecorderSpecInit /\ [][RecorderNext]_vars

\* the keyboard, one call per behaviour
KeyboardSpec == RecorderSpecInit /\ [][KeyboardNext]_vars

\* ------------------------------------------------------------------ helpers
IsMove(e) == e[1] = "move_mouse"
IsRead(e) == e[1] = "position"
IsOwn(e) == e[1] # "external"

\* the absolute moves, the position reads, and everything the call itself did
Moves == SelectSeq(events, IsMove)
Reads == SelectSeq(events, IsRead)
OwnEvents == SelectSeq(events, IsOwn)

\* tween(0) = 0 and tween(1) = 1
Normalized(tw) ==
    /\ Tween(tw, 0, 1)[1] = 0
    /\ Tween(tw, 1, 1)[1] = Tween(tw, 1, 1)[2]

Target == Point(call.x, call.y)

\* a move_to_with_tween call, direct or through move_by_with_tween, that
\* took the animated path and returned Ok
AnimatedOk ==
    /\ call.op \in {"move_to_with_tween", "move_by_with_tween"}
    /\ call.duration > 0
    /\ pc = "done"
    /\ result = "Ok"

\* ------------------------------------------------------------------- claims

\* C1: for every start position, target, duration > 0 and normalized tween,
\* the last absolute move issued by move_to_with_tween is exactly the target.
C1_FinalFrameOnTarget ==
    (AnimatedOk /\ Normalized(call.tween)) =>
        /\ Len(Moves) > 0
        /\ Moves[Len(Moves)][2] = Target

\* an eased animation of two frames or more from elsewhere has landed
C1_Witness ==
    /\ AnimatedOk
    /\ call.op = "move_to_with_tween"
    /\ call.tween = "ease_in_out_quad"
    /\ call.steps >= 2
    /\ call.start_pos # Target
    /\ Moves[Len(Moves)][2] = Target

\* C2 (as stated): N = max(1, round(duration * 60)), duration * 60 rounded to
\* the nearest integer, and exactly N + 1 absolute moves are issued.
C2_RoundedFrames ==
    AnimatedOk =>
        \E n \in 1..(call.duration + 1) :
            /\ \/ n = 1 /\ 2 * call.duration * 60 + 128 < 2 * 256
               \/ n * 256 <= 2 * call.duration * 60 + 128
                    /\ 2 * call.duration * 60 + 128 < (n + 1) * 256
            /\ Len(Moves) = n + 1

\* C2 (amended): N = max(1, floor(duration * 60)), duration * 60 truncated
\* toward zero, and exactly N + 1 absolute moves (frames 0..N) are issued.
C2_TruncatedFrames ==
    AnimatedOk =>
        \E n \in 1..(call.duration + 1) :
            /\ \/ n = 1 /\ call.duration * 60 < 2 * 128
               \/ n * 128 <= call.duration * 60 /\ call.duration * 60 < (n + 1) * 128
            /\ call.steps = n
            /\ Len(Moves) = n + 1

\* duration * 60 = 1.875: one step and two moves, where rounding gives two steps
C2_Witness ==
    /\ AnimatedOk
    /\ call.duration = 4
    /\ Len(Moves) = 2

\* C3: with a backend that never fails and duration > 0 the call produces
\* move(frame 0), sleep(duration/N), ..., sleep(duration/N), move(frame N):
\* frames in increasing i with progress i/N, a sleep of duration/N after every
\* move but the last, and it returns right after the final move.
C3_EventSequence ==
    (AnimatedOk /\ call.op = "move_to_with_tween") =>
        LET n == call.steps
            E == OwnEvents
        IN  /\ Len(E) = 3 * n + 3
            /\ E[1][1] = "position"
            /\ \A k \in 0..n :
                /\ E[3 * k + 2] = TweenEv(k, n)
                /\ E[3 * k + 3][1] = "move_mouse"
            /\ \A k \in 0..(n - 1) : E[3 * k + 4] = SleepEv(call.duration, n)
            /\ E[Len(E)][1] = "move_mouse"

\* an animation of three frames has returned Ok
C3_Witness ==
    /\ AnimatedOk
    /\ call.op = "move_to_with_tween"
    /\ call.steps = 2
    /\ Len(Moves) = 3

\* C4: for duration <= 0, move_to_with_tween issues exactly one absolute move
\* to the target and nothing else: no position read, no tween evaluation, no
\* sleep, just as move_to does.
C4_DegradesToMoveTo ==
    (call.op = "move_to_with_tween" /\ call.duration <= 0) =>
        \/ pc = "move_to_with_tween" /\ OwnEvents = <<>>
        \/ pc = "done" /\ OwnEvents = <<MoveEv(Target)>> /\ result \in {"Ok", "Err"}

\* a call with duration zero has returned Ok after its single move
C4_Witness ==
    /\ call.op = "move_to_with_tween"
    /\ call.duration = 0
    /\ pc = "done"
    /\ result = "Ok"
    /\ OwnEvents = <<MoveEv(Target)>>

\* C5 (as stated): move_by_with_tween works from one position read, so for a
\* normalized tween and duration > 0 the final frame is the first frame plus
\* exactly (dx, dy), whatever an external actor does during the call.
C5_FinalIsFirstPlusDelta ==
    (AnimatedOk /\ call.op = "move_by_with_tween" /\ Normalized(call.tween)) =>
        Moves[Len(Moves)][2] =
            Point(WrappingAdd(Moves[1][2][1], call.dx), WrappingAdd(Moves[1][2][2], call.dy))

\* C6: during move_to_with_tween with duration > 0 the position is read
\* exactly once, before the first move; every frame is the interpolation
\* between that read and the target even when an external actor moves the
\* pointer between frames, and a normalized tween still ends on the target.
C6_ReadOnceNoResampling ==
    (call.op = "move_to_with_tween" /\ call.duration > 0) =>
        /\ Len(Reads) <= 1
        /\ pc \in {"frame", "sleep"} => Len(Reads) = 1
        /\ Len(Moves) > 0 =>
            /\ Len(Reads) = 1
            /\ OwnEvents[1] = Reads[1]
            /\ \A k \in 1..Len(Moves) :
                Moves[k][2] = FramePoint(Reads[1][2], call.x, call.y, call.tween,
                                         k - 1, call.steps)
        /\ (pc = "done" /\ result = "Ok" /\ Normalized(call.tween)) =>
                Moves[Len(Moves)][2] = Target

\* the pointer was moved away between two frames of a finished animation
C6_Witness ==
    /\ AnimatedOk
    /\ call.op = "move_to_with_tween"
    /\ Len(Moves) >= 2
    /\ \E j \in 2..(Len(events) - 1) :
        /\ events[j][1] = "external"
        /\ events[j - 1][1] \in {"move_mouse", "sleep"}
        /\ events[j][2] # call.start_pos

\* the four corners of a w x h screen
FourCorners(w, h) ==
    <<Point(0, 0), Point(w - 1, 0), Point(0, h - 1), Point(w - 1, h - 1)>>

CheckReturned ==
    /\ call.op = "check"
    /\ pc \in {"done", "panicked"}

\* C7 (as stated): with failsafe enabled, check returns FailsafeTriggered if
\* and only if the pointer position equals one of the sentinel points, and
\* succeeds otherwise, also one pixel away from a sentinel.
C7_TriggersIffOnSentinel ==
    (CheckReturned /\ config.failsafe) =>
        IF Contains(config.failsafe_points, call.base)
        THEN result = "FailsafeTriggered"
        ELSE result = "Ok"

\* C8: with failsafe disabled, check succeeds for every pointer position, a
\* sentinel included, without reading the position or touching the backend.
C8_DisabledAlwaysOk ==
    (call.op = "check" /\ pc # "idle" /\ ~config.failsafe) =>
        /\ pc = "done"
        /\ result = "Ok"
        /\ events = <<>>

\* a disabled check has succeeded with the pointer exactly on a sentinel
C8_Witness ==
    /\ CheckReturned
    /\ ~config.failsafe
    /\ Contains(config.failsafe_points, call.base)
    /\ result = "Ok"

\* C9 (as stated): a manager built from MoverConfig::default(), before any
\* update_failsafe_points call, has the four corners of the live screen as
\* sentinels, so an enabled check at any corner returns FailsafeTriggered.
C9_DefaultSentinelsAreCorners ==
    (origin = "default" /\ ~updated) =>
        /\ config.failsafe_points = FourCorners(screen[1], screen[2])
        /\ (CheckReturned /\ Contains(FourCorners(call.size[1], call.size[2]), call.base)) =>
                result = "FailsafeTriggered"

\* C10: update_failsafe_points(size) replaces the sentinel list by exactly the
\* four corners of the given size and leaves the enabled flag unchanged; no
\* other step changes the list, a resolution change included.
C10_UpdateReplacesSentinels ==
    [][/\ config'.failsafe = config.failsafe
       /\ (config'.failsafe_points # config.failsafe_points) =>
              (pc = "idle" /\ call'.op = "update_failsafe_points")
       /\ (pc = "idle" /\ pc' = "done" /\ call'.op = "update_failsafe_points") =>
              config'.failsafe_points = FourCorners(call'.size[1], call'.size[2])
       /\ (screen' # screen) => config' = config]_vars

\* the resolution changed after an update that replaced a hand-built list:
\* the corners of the old size are still the sentinels
C10_Witness ==
    /\ call.op = "update_failsafe_points"
    /\ pc = "done"
    /\ origin = "custom"
    /\ screen # call.size
    /\ config.failsafe_points = FourCorners(call.size[1], call.size[2])
    /\ config.failsafe_points # FourCorners(screen[1], screen[2])

\* C11 (as stated): every mouse, keyboard and screen operation of the backend
\* returned by get_platform() returns success or an error value and never
\* panics, so an enabled check() returns Ok, FailsafeTriggered or an error.
C11_BackendNeverPanics ==
    (call.op \in {"platform_call", "check"}) => pc # "panicked"

AllLowercase(name) ==
    [k \in DOMAIN name |->
        IF \E j \in 1..26 : name[k] = UpperLetters[j]
        THEN LowerLetters[CHOOSE j \in 1..26 : name[k] = UpperLetters[j]]
        ELSE name[k]]

ConvertKeyReturned ==
    /\ call.op = "convert_key"
    /\ pc = "done"

\* C13: for every name whose lower-cased form is not in the key table, the
\* empty name included, convert_key returns UnsupportedOperation carrying the
\* name exactly as the caller gave it; it never falls back to some key.
C13_UnknownNameIsError ==
    (ConvertKeyReturned /\ AllLowercase(call.key) \notin DocumentedNames) =>
        /\ ~result.ok
        /\ result.err[1] = "UnsupportedOperation"
        /\ result.err[2] = <<"Unsupported key: ", call.key>>

\* a mixed-case unknown name came back in the error as it was given
C13_Witness ==
    /\ ConvertKeyReturned
    /\ call.key = <<"F", "o", "o", "B", "a", "r">>
    /\ ~result.ok
    /\ result.err[2][2] = <<"F", "o", "o", "B", "a", "r">>

\* C14: convert_key is case-insensitive: every upper/lower-case spelling of a
\* table name resolves to the same key as the all-lowercase name.
C14_CaseInsensitive ==
    (ConvertKeyReturned /\ AllLowercase(call.key) \in DocumentedNames) =>
        result = convert_key(AllLowercase(call.key))

\* "ENTER" has resolved to the Return key
C14_Witness ==
    /\ ConvertKeyReturned
    /\ call.key = <<"E", "N", "T", "E", "R">>
    /\ result.ok
    /\ result.key = <<"Return">>

\* the names that are aliases of one key
AliasGroups ==
    {{<<"e", "n", "t", "e", "r">>, <<"r", "e", "t", "u", "r", "n">>},
     {<<"e", "s", "c", "a", "p", "e">>, <<"e", "s", "c">>},
     {<<"d", "e", "l", "e", "t", "e">>, <<"d", "e", "l">>},
     {<<"p", "a", "g", "e", "u", "p">>, <<"p", "g", "u", "p">>},
     {<<"p", "a", "g", "e", "d", "o", "w", "n">>, <<"p", "g", "d", "n">>},
     {<<"c", "t", "r", "l">>, <<"c", "o", "n", "t", "r", "o", "l">>},
     {<<"m", "e", "t", "a">>, <<"w", "i", "n">>, <<"c", "o", "m", "m", "a", "n", "d">>}}

\* C15 (as stated): convert_key succeeds for every name of the table, the 32
\* ASCII punctuation characters included, and the aliases of one key resolve
\* to the same key.
C15_WholeTableResolves ==
    (ConvertKeyReturned /\ call.key \in DocumentedNames) =>
        /\ result.ok
        /\ \A group \in AliasGroups :
              call.key \in group => \A other \in group : convert_key(other) = result

\* C16: convert_button is total over the nine buttons: Left, Middle and Right
\* map to themselves, Primary to Left, Secondary to Right, Button4 and Button6
\* to Left, Button5 and Button7 to Right.
C16_ButtonConversionTotal ==
    (call.op = "convert_button" /\ pc = "done") =>
        /\ result.ok
        /\ call.button \in {"Left", "Middle", "Right"} => result.button = call.button
        /\ call.button \in {"Primary", "Button4", "Button6"} => result.button = "Left"
        /\ call.button \in {"Secondary", "Button5", "Button7"} => result.button = "Right"

\* an extra button has been converted to the right button
C16_Witness ==
    /\ call.op = "convert_button"
    /\ pc = "done"
    /\ call.button = "Button7"
    /\ result.ok
    /\ result.button = "Right"

RecordOps ==
    {"record_mouse_move", "record_mouse_click", "record_mouse_drag",
     "record_key_press", "record_key_type", "record_screenshot", "record_wait"}

\* the entry a record_* call is to append, from the values it was given
Given(c) ==
    CASE c.op = "record_mouse_move" ->
            [tag |-> "MouseMove", x |-> c.args[1], y |-> c.args[2], duration |-> c.args[3]]
      [] c.op = "record_mouse_click" ->
            [tag |-> "MouseClick", x |-> c.args[1], y |-> c.args[2], button |-> c.args[3]]
      [] c.op = "record_mouse_drag" ->
            [tag |-> "MouseDrag", from |-> c.args[1], to |-> c.args[2], button |-> c.args[3]]
      [] c.op = "record_key_press" -> [tag |-> "KeyPress", key |-> c.args[1]]
      [] c.op = "record_key_type" -> [tag |-> "KeyType", text |-> c.args[1]]
      [] c.op = "record_screenshot" -> [tag |-> "Screenshot", path |-> c.args[1]]
      [] c.op = "record_wait" -> [tag |-> "Wait", duration |-> c.args[1]]

\* C17: every record_* call appends exactly one entry with the given field
\* values at the end of the log, returns normally and leaves the earlier
\* entries as they were, in order; get_actions returns exactly the log, and
\* get_actions, export_json and reading the export back leave it unchanged.
C17_AppendOnlyLog ==
    [][/\ call'.op \in RecordOps =>
            /\ actions' = Append(actions, Given(call'))
            /\ result' = "Ok"
            /\ pc' = "idle"
       /\ call'.op \notin RecordOps => actions' = actions
       /\ call'.op = "get_actions" => result' = actions]_vars

\* a log of two different entries has been read in call order
C17_Witness ==
    /\ call.op = "get_actions"
    /\ Len(actions) >= 2
    /\ actions[1].tag = "MouseMove"
    /\ actions[2].tag = "KeyPress"
    /\ result = actions

\* C18 (as stated): reading an exported log back gives the identical sequence
\* of records, for every log over the seven variants.
C18_ExportImportRoundTrip ==
    call.op = "import" =>
        /\ result.ok
        /\ result.value = actions

\* C19 (as stated): for all 32-bit endpoints the utility get_point_on_line
\* returns, without an overflow of x2 - x1 or y2 - y1, the first endpoint for
\* n = 0, the second for n = 1, and (50, 50) for (0, 0, 100, 100, 0.5).
C19_LineEndpoints ==
    call.op = "get_point_on_line" =>
        /\ pc = "done"
        /\ ~SubOverflows(call.x2, call.x1)
        /\ ~SubOverflows(call.y2, call.y1)
        /\ call.n = <<0, 1>> => result = Point(call.x1, call.y1)
        /\ call.n = <<1, 1>> => result = Point(call.x2, call.y2)
        /\ (/\ Point(call.x1, call.y1) = Point(0, 0)
            /\ Point(call.x2, call.y2) = Point(100, 100)
            /\ call.n = <<1, 2>>) => result = Point(50, 50)

\* the fraction v = <<num, den>> equals a/b
IsFraction(v, a, b) == v[1] * b = a * v[2]

\* C20: every built-in tween is normalized, f(0) = 0 and f(1) = 1, and
\* ease_in_out_quad(0.5) = 0.5, where both of its branch formulas give 0.5.
C20_BuiltinTweensNormalized ==
    (call.op = "tween" /\ pc = "done") =>
        /\ call.i = 0 => IsFraction(result, 0, 1)
        /\ call.i = call.n => IsFraction(result, 1, 1)
        /\ (call.tween = "ease_in_out_quad" /\ 2 * call.i = call.n) =>
              /\ IsFraction(result, 1, 2)
              /\ IsFraction(ease_in_out_quad_first(call.i, call.n), 1, 2)
              /\ IsFraction(ease_in_out_quad_second(call.i, call.n), 1, 2)

\* ease_in_out_quad has been evaluated at t = 1/2 and gave 1/2
C20_Witness ==
    /\ call.op = "tween"
    /\ pc = "done"
    /\ call.tween = "ease_in_out_quad"
    /\ call.i = 1
    /\ call.n = 2
    /\ result = <<2, 4>>

IsKey(e) == e[1] = "key"

\* the key events of the call, in order
KeyEvents == SelectSeq(events, IsKey)

\* the key a recognized name stands for
KeyOf(name) == convert_key(name).key

\* C21: for recognized keys k1..kn and a backend that never fails,
\* press_hotkey issues Press(k1), ..., Press(kn) in the given order and then
\* Release(kn), ..., Release(k1): every press before every release, one press
\* and one release per listed key.
C21_PressThenReleaseReversed ==
    (call.op = "press_hotkey" /\ pc = "done" /\ result = "Ok") =>
        LET n == Len(call.keys)
            K == KeyEvents
        IN  /\ Len(K) = 2 * n
            /\ \A k \in 1..n :
                /\ K[k] = KeyEv(KeyOf(call.keys[k]), "Press", TRUE)
                /\ K[2 * n + 1 - k] = KeyEv(KeyOf(call.keys[k]), "Release", TRUE)

\* ctrl, C has been pressed in order and released in reverse
C21_Witness ==
    /\ call.op = "press_hotkey"
    /\ pc = "done"
    /\ result = "Ok"
    /\ call.keys = << <<"c", "t", "r", "l">>, <<"C">> >>
    /\ KeyEvents = <<KeyEv(<<"Control">>, "Press", TRUE),
                     KeyEv(<<"Unicode", "c">>, "Press", TRUE),
                     KeyEv(<<"Unicode", "c">>, "Release", TRUE),
                     KeyEv(<<"Control">>, "Release", TRUE)>>

\* how often the backend accepted the key in the given direction
Accepted(key, direction) ==
    Cardinality({k \in DOMAIN events : events[k] = KeyEv(key, direction, TRUE)})

\* the keys the call has pressed and not released
HeldKeys ==
    {KeyOf(name) : name \in {nm \in HotkeyNames : convert_key(nm).ok /\
        Accepted(KeyOf(nm), "Press") > Accepted(KeyOf(nm), "Release")}}

\* C26 (as stated): when press_hotkey returns, with success or with an error,
\* every key it pressed during the call has been released.
C26_NoKeyLeftHeld ==
    (call.op = "press_hotkey" /\ pc = "done") => HeldKeys = {}

IsButton(e) == e[1] = "button"

\* C27 (as stated): drag_to presses the button, moves once to (x, y) and
\* releases the same button, in that order, and a button it pressed is
\* released on every return path, also when the move fails.
C27_DragReleasesButton ==
    (call.op = "drag_to" /\ pc = "done" /\ OwnEvents[1][4]) =>
        LET E == OwnEvents
        IN  /\ Len(E) = 3
            /\ E[1][3] = "Press"
            /\ E[2] = MoveEv(Target)
            /\ IsButton(E[3])
            /\ E[3][2] = E[1][2]
            /\ E[3][3] = "Release"

\* C22: move_to_with_tween with duration > 0 retries nothing: when the
\* position read fails it has issued no move, and when the move of frame i
\* fails it returns that error at once, having issued the moves of frames
\* 0..i once each, in order, and no later move or sleep.
C22_NoRetry ==
    (call.op = "move_to_with_tween" /\ call.duration > 0 /\ result = "Err") =>
        LET E == OwnEvents
            n == call.steps
            i == call.i
        IN  /\ pc = "done"
            /\ IF n = 0
               THEN /\ Len(E) = 1
                    /\ IsRead(E[1])
               ELSE /\ Len(E) = 3 * i + 3
                    /\ Len(Moves) = i + 1
                    /\ \A k \in 0..i :
                        /\ E[3 * k + 2] = TweenEv(k, n)
                        /\ E[3 * k + 3] =
                              MoveEv(FramePoint(call.start_pos, call.x, call.y,
                                                call.tween, k, n))
                    /\ \A k \in 0..(i - 1) : E[3 * k + 4][1] = "sleep"

\* the move of the second frame failed after the first one went through
C22_Witness ==
    /\ call.op = "move_to_with_tween"
    /\ call.duration > 0
    /\ result = "Err"
    /\ pc = "done"
    /\ call.i = 1
    /\ Len(Moves) = 2

\* what the engine itself does: position reads, tween evaluations, moves, sleeps
EngineEvent(e) == e[1] \in {"position", "tween", "move_mouse", "sleep"}

\* C25: a move_to_with_tween started with duration > 0 cannot be cancelled:
\* it always terminates, a call that no backend failure ended has issued all
\* N + 1 frames, and it never polls the failsafe monitor nor returns
\* FailsafeTriggered, also when a frame lands on a sentinel with failsafe on.
C25_RunsToCompletion ==
    /\ []((call.op = "move_to_with_tween" /\ call.duration > 0) =>
            /\ result # "FailsafeTriggered"
            /\ last_check = 0
            /\ \A k \in DOMAIN OwnEvents : EngineEvent(OwnEvents[k]))
    /\ []((AnimatedOk /\ call.op = "move_to_with_tween") =>
            Len(Moves) = call.steps + 1)
    /\ (pc \in {"move_to_with_tween", "frame", "sleep"}) ~> (pc \in {"done", "panicked"})

\* with failsafe on, a call of three frames whose first frame lay on the
\* sentinel (0, 0) has run to its last frame and returned Ok
C25_Witness ==
    /\ AnimatedOk
    /\ call.op = "move_to_with_tween"
    /\ config.failsafe
    /\ call.steps = 2
    /\ Len(Moves) = 3
    /\ Contains(config.failsafe_points, Moves[1][2])
    /\ ~Contains(config.failsafe_points, Target)

BothReturned ==
    \A c \in Callers :
        /\ call[c].op = "move_to_with_tween"
        /\ pc[c] = "done"
        /\ result[c] = "Ok"
        /\ Normalized(call[c].tween)

CallerTarget(c) == Point(call[c].x, call[c].y)

\* the moves of the two callers alternate somewhere in the log
Interleaved ==
    \E j \in 1..(Len(events) - 2) :
        /\ events[j][3] # events[j + 1][3]
        /\ events[j + 1][3] # events[j + 2][3]

\* C23: nothing keeps two callers of move_to_with_tween (normalized tweens)
\* apart: their moves interleave in any order, and once both have returned
\* the pointer is at the target of the caller that issued its final move
\* last, hence at one of the two targets.
C23_LastWriteWins ==
    (DOMAIN pc = Callers /\ BothReturned) =>
        LET last == events[Len(events)][3]
        IN  /\ pointer = CallerTarget(last)
            /\ pointer \in {CallerTarget(c) : c \in Callers}

\* both callers have returned after their moves alternated, the pointer is
\* at the target of A, and B's target is another point
C23_Witness ==
    /\ DOMAIN pc = Callers
    /\ BothReturned
    /\ Interleaved
    /\ events[Len(events)][3] = "A"
    /\ events[Len(events) - 1][3] = "B"
    /\ pointer = CallerTarget("A")
    /\ CallerTarget("B") # CallerTarget("A")

\* C24: check never changes the enabled flag or the sentinel list, whatever
\* its outcome; the flag never changes, and the sentinel list changes only in
\* a call of update_failsafe_points.
C24_CheckLeavesConfig ==
    [][/\ (pc = "idle" /\ call'.op = "check") => config' = config
       /\ config'.failsafe = config.failsafe
       /\ config'.failsafe_points # config.failsafe_points =>
            (pc = "idle" /\ call'.op = "update_failsafe_points")]_vars

\* a check has run on a manager whose sentinels were updated to the four
\* corners, and they are still the four corners
C24_Witness ==
    /\ call.op = "check"
    /\ pc \in {"done", "panicked"}
    /\ updated
    /\ config.failsafe_points = Corners(call.size)

\* C28 (as stated): Mouse::get_point_on_line returns the point the utility
\* get_point_on_line returns for the same endpoints and the same ratio in
\* [0, 1], negative coordinates included.
C28_SamePointOnLine ==
    (call.op = "Mouse::get_point_on_line" /\ pc = "done") =>
        result = Point(LineAxis(call.x1, call.x2, call.n),
                       LineAxis(call.y1, call.y2, call.n))

\* C29 (as stated): FailsafeTriggered is not latched: on a supported host the
\* outcome of every check depends only on the enabled flag, the sentinel list
\* and the pointer position of that call, so a check with the pointer off
\* every sentinel succeeds whatever the checks before it returned.
C29_OutcomeOfThisCallOnly ==
    [][(pc = "idle" /\ call'.op = "check" /\ get_platform(host).ok) =>
            result' = IF config.failsafe /\ Contains(config.failsafe_points, pointer)
                      THEN "FailsafeTriggered"
                      ELSE "Ok"]_vars

\* v lies between a and b
Between(v, a, b) == (a <= v /\ v <= b) \/ (b <= v /\ v <= a)

\* C30 (as stated): for each built-in tween and every duration > 0, every
\* frame issued by move_to_with_tween lies in the bounding box of the start
\* position and the target, and along each axis no frame is farther from the
\* target than the frame before it.
C30_NoOvershootMonotone ==
    (/\ call.op = "move_to_with_tween"
     /\ call.duration > 0
     /\ call.tween \in BuiltinTweens
     /\ call.steps > 0) =>
        \A k \in DOMAIN Moves : \A axis \in 1..2 :
            /\ Between(Moves[k][2][axis], call.start_pos[axis], Target[axis])
            /\ k > 1 => Between(Moves[k][2][axis], Moves[k - 1][2][axis], Target[axis])

====
